---- MODULE Spec2Model ----
(***************************************************************************)
(* GeoEngine proxy service: the job registry behind an exclusive lock, the *)
(* background scheduler loop of ProxyServer::run, the HTTP routes over the *)
(* Job Manager, and the asynchronous container executions.                 *)
(***************************************************************************)
EXTENDS Integers, Sequences, FiniteSets, TLC

\* ------------------------------------------------------------------ bounds
\* Number of jobs submitted in one run of the service.
MaxJobs == 3
\* Largest concurrency bound ProxyServer::new is given.
MaxW == 2

\* --------------------------------------------------------------- variables
VARIABLES
    max_workers,      \* ProxyServer.max_workers
    manager_bound,    \* the bound the Job Manager was constructed with
    jobs,             \* the registry: job records in creation order
    next_id,          \* the next job identifier
    clock,            \* logical time of the latest submission
    lock,             \* holder of the RwLock around the Job Manager
    sched_pc,         \* position of the background scheduler task
    picked,           \* registry index process_pending is promoting, 0 if none
    stop_calls,       \* job ids for which stop was requested of the Runtime Gateway
    logged_error,     \* whether the latest scheduler pass logged "Job processing error"
    resp,             \* HTTP response produced by the latest step, NoResp for internal steps
    fs,               \* output directories on the host: None if absent, else Some(entries)
    esc_args,         \* args handed to run_project_with_options, each a sequence of characters
    full_command,     \* None, or Some(text) once the shell command line is built
    tool_name,        \* run_tool: the tool asked for
    input_args,       \* run_tool: the raw --input arguments, in the order given
    output_dir,       \* run_tool: None or Some(path)
    rt_pc,            \* run_tool: "idle", "lookup", "parse", "outdir", "build", "delegate", "done", "failed"
    inputs,           \* run_tool: the HashMap of parsed inputs
    extra_mounts,     \* run_tool: the (host, container, readonly) mounts added so far
    extra_env,        \* run_tool: the environment added so far
    script_args,      \* run_tool: the arguments built for the script
    rt_error,         \* run_tool: None or Some(error) it returned
    delegated,        \* None or Some(call) of run_project_with_options
    prev_script_args, \* None, or Some(script_args) of the previous build of the same inputs
    rp_pc,            \* run_project_with_options: "idle", "config", "run", "report", "exited", "failed"
    rp_error,         \* run_project_with_options: None or Some(error) it returned
    json_output,      \* whether the run is in structured-output mode
    container_config, \* None or Some(ContainerConfig) built for the run
    exit_code,        \* None or Some(exit code) of the container
    result,           \* None or Some(RunToolResult) printed to standard output
    process_exit,     \* None or Some(exit code) of the CLI process
    projects,         \* Settings.projects: registered name -> path
    settings_call     \* the last call on Settings and what it returned

\* The state of the proxy service.
job_vars == <<max_workers, manager_bound, jobs, next_id, clock, lock, sched_pc,
              picked, stop_calls, logged_error>>

\* The state outside the Job Manager, which no Job Manager operation changes.
fs_vars == <<fs>>

\* The state of one command-line build.
esc_vars == <<esc_args, full_command>>

\* The state of one run of a tool.
tool_vars == <<tool_name, input_args, output_dir, rt_pc, inputs, extra_mounts,
               extra_env, script_args, rt_error, delegated, prev_script_args>>

\* The state of one call of run_project_with_options.
run_vars == <<rp_pc, rp_error, json_output, container_config, exit_code, result,
              process_exit>>

\* The state of Settings.
settings_vars == <<projects, settings_call>>

aux_vars == <<fs_vars, esc_vars, tool_vars, run_vars, settings_vars>>

vars == <<max_workers, manager_bound, jobs, next_id, clock, lock, sched_pc,
          picked, stop_calls, logged_error, resp, fs, esc_args, full_command,
          tool_name, input_args, output_dir, rt_pc, inputs, extra_mounts,
          extra_env, script_args, rt_error, delegated, prev_script_args,
          rp_pc, rp_error, json_output, container_config, exit_code, result,
          process_exit, projects, settings_call>>

\* ------------------------------------------------------------------ values
\* Rust Option<T>
None == <<>>
Some(v) == <<v>>

Terminal == {"Completed", "Failed", "Cancelled"}
JobStates == {"Queued", "Running"} \cup Terminal

\* The reading of the wall clock, for the start and finish timestamps.
Now == "now"

\* Execution plans a client may submit.
Plans == {[output_dir |-> Some("out")]}

\* Plans with and without an output directory.
OutputPlans == {[output_dir |-> None], [output_dir |-> Some("out")]}

\* Host directories that plans name as output directory.
OutDirs == {"out"}

\* What a container may leave in its output directory.
Entries ==
    {[name |-> "a.tif", kind |-> "file", size |-> 1],
     [name |-> "sub", kind |-> "dir", size |-> 0]}

\* Identifiers a client may name in a request; MaxJobs + 1 is never issued.
ReqIds == 1..(MaxJobs + 1)

NoResp == [method |-> "", path |-> "", id |-> 0, code |-> 0, files |-> {}]
Response(m, p, i, c) == [method |-> m, path |-> p, id |-> i, code |-> c, files |-> {}]
ResponseFiles(m, p, i, c, fl) ==
    [method |-> m, path |-> p, id |-> i, code |-> c, files |-> fl]

\* Names under which projects are registered.
ProjectNames == {"alpha", "beta"}

\* ------------------------------------------------------- registry helpers
Indices == 1..Len(jobs)

JobIds(js) == {js[i].id : i \in 1..Len(js)}

HasJob(id) == \E i \in Indices : jobs[i].id = id

\* Registry index of the job with this identifier.
JobIndex(id) == CHOOSE i \in Indices : jobs[i].id = id

RunningCount == Cardinality({i \in Indices : jobs[i].state = "Running"})

QueuedIndices == {i \in Indices : jobs[i].state = "Queued"}

\* Mutant of OldestQueued: the most recently created queued job is taken.
OldestQueued_Newest ==
    CHOOSE i \in QueuedIndices :
        \A k \in QueuedIndices : jobs[i].created >= jobs[k].created

\* The queued job with the smallest creation time.
OldestQueued ==
    CHOOSE i \in QueuedIndices :
        \A k \in QueuedIndices : jobs[i].created <= jobs[k].created

NewJob(id, plan, now) ==
    [id |-> id, state |-> "Queued", plan |-> plan, created |-> now,
     started |-> None, finished |-> None, exit_code |-> None,
     error |-> None, stop_requested |-> FALSE]

\* ------------------------------------------------- ProxyServer::run set-up
\* Mutant of JobManagerNew: the bound is off by one.
JobManagerNew_OffByOne(w) == w + 1

\* JobManager::new(self.max_workers): the bound handed to the Job Manager.
JobManagerNew(w) == w

\* No output directory exists yet.
FsInit == fs = [d \in OutDirs |-> None]

\* No command line is being built.
EscInit ==
    /\ esc_args = <<>>
    /\ full_command = None

\* The empty HashMap.
EmptyMap == <<>>

\* No tool has been run.
ToolInit ==
    /\ tool_name = ""
    /\ input_args = <<>>
    /\ output_dir = None
    /\ rt_pc = "idle"
    /\ inputs = EmptyMap
    /\ extra_mounts = <<>>
    /\ extra_env = EmptyMap
    /\ script_args = <<>>
    /\ rt_error = None
    /\ delegated = None
    /\ prev_script_args = None

\* run_project_with_options has not been called.
RunInit ==
    /\ rp_pc = "idle"
    /\ rp_error = None
    /\ json_output = FALSE
    /\ container_config = None
    /\ exit_code = None
    /\ result = None
    /\ process_exit = None

\* Settings::default(): no project is registered and nothing was called.
SettingsInit ==
    /\ projects = EmptyMap
    /\ settings_call = None

Init ==
    /\ FsInit
    /\ EscInit
    /\ ToolInit
    /\ RunInit
    /\ SettingsInit
    /\ max_workers \in 1..MaxW
    /\ manager_bound = JobManagerNew(max_workers)
    /\ jobs = <<>>
    /\ next_id = 1
    /\ clock = 0
    /\ lock = "free"
    /\ sched_pc = "sleep"
    /\ picked = 0
    /\ stop_calls = {}
    /\ logged_error = FALSE
    /\ resp = NoResp

\* ------------------------------------------------------------------ router
\* The routing table of the axum Router built in ProxyServer::run: method,
\* path and handler of each .route(...) call.
Routes ==
    {<<"GET",    "/api/health",               "health">>,
     <<"GET",    "/api/jobs",                 "list_jobs">>,
     <<"POST",   "/api/jobs",                 "submit_job">>,
     <<"GET",    "/api/jobs/:id",             "get_job">>,
     <<"DELETE", "/api/jobs/:id",             "cancel_job">>,
     <<"GET",    "/api/jobs/:id/output",      "get_job_output">>,
     <<"GET",    "/api/projects",             "list_projects">>,
     <<"GET",    "/api/projects/:name",       "get_project">>,
     <<"GET",    "/api/projects/:name/tools", "get_project_tools">>}

\* What the router does with a request under a table: the handler of the
\* route that matches path and method (a get route also answers HEAD); 405
\* from the method router when the path is routed for other methods only;
\* 404 when no route has the path.
Lookup(table, method, path) ==
    LET m == IF method = "HEAD" THEN "GET" ELSE method
        hit == {r \in table : r[1] = m /\ r[2] = path}
    IN  IF hit # {} THEN (CHOOSE r \in hit : TRUE)[3]
        ELSE IF \E r \in table : r[2] = path THEN "method_not_allowed"
        ELSE "not_found"

\* Mutant of Route: DELETE /api/jobs/:id is wired to the get handler.
Route_DeleteAsGet(method, path) ==
    Lookup((Routes \ {<<"DELETE", "/api/jobs/:id", "cancel_job">>})
              \cup {<<"DELETE", "/api/jobs/:id", "get_job">>}, method, path)

\* Mutant of Route: GET /api/jobs/:id is wired to the list handler.
Route_GetAsList(method, path) ==
    Lookup((Routes \ {<<"GET", "/api/jobs/:id", "get_job">>})
              \cup {<<"GET", "/api/jobs/:id", "list_jobs">>}, method, path)

\* Mutant of Route: POST /api/jobs is wired to the list handler.
Route_PostAsList(method, path) ==
    Lookup((Routes \ {<<"POST", "/api/jobs", "submit_job">>})
              \cup {<<"POST", "/api/jobs", "list_jobs">>}, method, path)

\* The axum Router built in ProxyServer::run.
Route(method, path) == Lookup(Routes, method, path)

\* ---------------------------------------------------- Job Manager handlers
\* Every handler runs with the registry lock taken and released inside it.
LockFree == lock = "free"

\* Mutant of NextJobId: the identifier is derived from the length of the queue.
NextJobId_FromQueue == Cardinality(QueuedIndices) + 1

\* The identifier given to the next submitted job.
NextJobId == next_id

\* submit(plan) -> jobId: registers a new Queued job and returns at once.
submit_job(m, p, plan) ==
    /\ Len(jobs) < MaxJobs
    /\ clock' = clock + 1
    /\ jobs' = Append(jobs, NewJob(NextJobId, plan, clock'))
    /\ next_id' = next_id + 1
    /\ resp' = Response(m, p, NextJobId, 201)
    /\ UNCHANGED <<aux_vars, max_workers, manager_bound, logged_error, lock, sched_pc, picked, stop_calls>>

\* list() -> [JobSummary]
list_jobs(m, p) ==
    /\ resp' = Response(m, p, 0, 200)
    /\ UNCHANGED <<aux_vars, max_workers, manager_bound, logged_error, jobs, next_id, clock, lock,
                   sched_pc, picked, stop_calls>>

\* get(jobId) -> Job | NotFound
get_job(m, p, id) ==
    /\ resp' = Response(m, p, id, IF HasJob(id) THEN 200 ELSE 404)
    /\ UNCHANGED <<aux_vars, max_workers, manager_bound, logged_error, jobs, next_id, clock, lock,
                   sched_pc, picked, stop_calls>>

\* Mutant of collect_output_files: entries that are no regular files are listed too.
collect_output_files_AllEntries(out_dir) ==
    IF out_dir = None THEN {}
    ELSE LET dir == out_dir[1] IN
         IF fs[dir] = None THEN {}
         ELSE {[name |-> e.name, path |-> <<dir, e.name>>, size |-> e.size] :
                  e \in fs[dir][1]}

\* collect_output_files: the regular files directly under out_dir; empty
\* when there is no out_dir or it cannot be read.
collect_output_files(out_dir) ==
    IF out_dir = None THEN {}
    ELSE LET dir == out_dir[1] IN
         IF fs[dir] = None THEN {}
         ELSE {[name |-> e.name, path |-> <<dir, e.name>>, size |-> e.size] :
                  e \in {x \in fs[dir][1] : x.kind = "file"}}

\* The file list getOutput answers for a job.
OutputOf(job) ==
    IF job.state \in Terminal THEN collect_output_files(job.plan.output_dir) ELSE {}

\* getOutput(jobId) -> [FileInfo] | NotFound
get_job_output(m, p, id) ==
    /\ resp' = IF HasJob(id)
               THEN ResponseFiles(m, p, id, 200, OutputOf(jobs[JobIndex(id)]))
               ELSE Response(m, p, id, 404)
    /\ UNCHANGED <<aux_vars, max_workers, manager_bound, logged_error, jobs, next_id, clock, lock,
                   sched_pc, picked, stop_calls>>

\* cancel(jobId) -> Job | NotFound | Conflict.  A Queued job goes directly to
\* Cancelled and never runs; as a terminal job it carries both timestamps
\* (section 3: every Running or terminal job has a start timestamp, every
\* terminal job a finish timestamp), here the time of the cancellation.
cancel_job(m, p, id) ==
    /\ UNCHANGED <<aux_vars, max_workers, manager_bound, logged_error, next_id, clock, lock, sched_pc, picked>>
    /\ IF ~HasJob(id)
       THEN /\ resp' = Response(m, p, id, 404)
            /\ UNCHANGED <<jobs, stop_calls>>
       ELSE LET i == JobIndex(id) IN
            CASE jobs[i].state = "Queued" ->
                   /\ jobs' = [jobs EXCEPT ![i].state = "Cancelled",
                                           ![i].started = Some(Now),
                                           ![i].finished = Some(Now)]
                   /\ resp' = Response(m, p, id, 200)
                   /\ UNCHANGED stop_calls
              [] jobs[i].state = "Running" ->
                   /\ jobs' = [jobs EXCEPT ![i].stop_requested = TRUE]
                   /\ stop_calls' = stop_calls \cup {id}
                   /\ resp' = Response(m, p, id, 200)
              [] OTHER ->
                   /\ resp' = Response(m, p, id, 409)
                   /\ UNCHANGED <<jobs, stop_calls>>

\* GET /api/health: 200 with the liveness payload; nothing changes.
health(m, p) ==
    /\ resp' = Response(m, p, 0, 200)
    /\ UNCHANGED <<aux_vars, max_workers, manager_bound, logged_error, jobs, next_id, clock, lock,
                   sched_pc, picked, stop_calls>>

\* GET /api/projects: 200 with the project list; nothing changes.
list_projects(m, p) ==
    /\ resp' = Response(m, p, 0, 200)
    /\ UNCHANGED <<aux_vars, max_workers, manager_bound, logged_error, jobs, next_id, clock, lock,
                   sched_pc, picked, stop_calls>>

\* GET /api/projects/:name: 200 with the summary of a registered project,
\* 404 for a name that is not registered; nothing changes.
get_project(m, p) ==
    /\ \E name \in ProjectNames :
          resp' = Response(m, p, 0, IF name \in DOMAIN projects THEN 200 ELSE 404)
    /\ UNCHANGED <<aux_vars, max_workers, manager_bound, logged_error, jobs, next_id, clock, lock,
                   sched_pc, picked, stop_calls>>

\* GET /api/projects/:name/tools: 200 with the tool list of a registered
\* project, 404 for a name that is not registered; nothing changes.
get_project_tools(m, p) ==
    /\ \E name \in ProjectNames :
          resp' = Response(m, p, 0, IF name \in DOMAIN projects THEN 200 ELSE 404)
    /\ UNCHANGED <<aux_vars, max_workers, manager_bound, logged_error, jobs, next_id, clock, lock,
                   sched_pc, picked, stop_calls>>

\* A routed path asked with a method it has no route for: the method router
\* answers 405 and no handler runs.
method_not_allowed(m, p, id) ==
    /\ resp' = Response(m, p, id, 405)
    /\ UNCHANGED <<aux_vars, max_workers, manager_bound, logged_error, jobs, next_id, clock, lock,
                   sched_pc, picked, stop_calls>>

\* A request for a path outside the routing table: 404 and no handler runs.
not_found(m, p, id) ==
    /\ resp' = Response(m, p, id, 404)
    /\ UNCHANGED <<aux_vars, max_workers, manager_bound, logged_error, jobs, next_id, clock, lock,
                   sched_pc, picked, stop_calls>>

\* The CorsLayer around the router answers every OPTIONS request itself,
\* with 200 and the Access-Control-Allow headers; the router is not asked.
cors_preflight(m, p, id) ==
    /\ resp' = Response(m, p, id, 200)
    /\ UNCHANGED <<aux_vars, max_workers, manager_bound, logged_error, jobs, next_id, clock, lock,
                   sched_pc, picked, stop_calls>>

\* A request passes the CorsLayer and then the router.
Dispatch(m, p, id, plan) ==
    LET h == IF m = "OPTIONS" THEN "cors_preflight" ELSE Route(m, p) IN
    CASE h = "cors_preflight"     -> cors_preflight(m, p, id)
      [] h = "submit_job"         -> submit_job(m, p, plan)
      [] h = "list_jobs"          -> list_jobs(m, p)
      [] h = "get_job"            -> get_job(m, p, id)
      [] h = "cancel_job"         -> cancel_job(m, p, id)
      [] h = "get_job_output"     -> get_job_output(m, p, id)
      [] h = "health"             -> health(m, p)
      [] h = "list_projects"      -> list_projects(m, p)
      [] h = "get_project"        -> get_project(m, p)
      [] h = "get_project_tools"  -> get_project_tools(m, p)
      [] h = "method_not_allowed" -> method_not_allowed(m, p, id)
      [] OTHER                    -> not_found(m, p, id)

\* ----------------------------------------------------------- HTTP requests
PostJobs ==
    /\ LockFree
    /\ \E plan \in Plans : Dispatch("POST", "/api/jobs", 0, plan)

GetJobs ==
    /\ LockFree
    /\ Dispatch("GET", "/api/jobs", 0, [output_dir |-> None])

GetJob ==
    /\ LockFree
    /\ \E id \in ReqIds : Dispatch("GET", "/api/jobs/:id", id, [output_dir |-> None])

\* The requests that reach no Job Manager operation: health and project
\* routes, a routed path asked with another method, an unknown path, and
\* OPTIONS requests for a routed and for an unknown path.
OtherRequests ==
    {<<"GET", "/api/health">>, <<"GET", "/api/projects">>,
     <<"GET", "/api/projects/:name">>, <<"GET", "/api/projects/:name/tools">>,
     <<"DELETE", "/api/jobs">>, <<"GET", "/api/unknown">>,
     <<"OPTIONS", "/api/jobs">>, <<"OPTIONS", "/api/unknown">>}

OtherRequest ==
    \E r \in OtherRequests : Dispatch(r[1], r[2], 0, [output_dir |-> None])

DeleteJob ==
    /\ LockFree
    /\ \E id \in ReqIds : Dispatch("DELETE", "/api/jobs/:id", id, [output_dir |-> None])

GetJobOutput ==
    /\ LockFree
    /\ \E id \in ReqIds :
          Dispatch("GET", "/api/jobs/:id/output", id, [output_dir |-> None])

\* ------------------------------------------------------ the scheduler task
\* Mutant of SchedAcquire: process_pending runs without the exclusive lock.
SchedAcquire_Unlocked ==
    /\ sched_pc = "sleep"
    /\ sched_pc' = "count"
    /\ resp' = NoResp
    /\ UNCHANGED <<aux_vars, max_workers, manager_bound, logged_error, jobs, next_id, clock, lock, picked,
                   stop_calls>>

\* job_manager.write().await: the loop takes the exclusive lock.
SchedAcquire ==
    /\ sched_pc = "sleep"
    /\ lock = "free"
    /\ lock' = "scheduler"
    /\ sched_pc' = "count"
    /\ resp' = NoResp
    /\ UNCHANGED <<aux_vars, max_workers, manager_bound, logged_error, jobs, next_id, clock, picked, stop_calls>>

\* process_pending: the loop condition.
CanPromote == RunningCount < manager_bound /\ QueuedIndices # {}

\* process_pending: choose the oldest Queued job.
SchedPick ==
    /\ sched_pc = "count"
    /\ CanPromote
    /\ picked' = OldestQueued
    /\ sched_pc' = "start"
    /\ resp' = NoResp
    /\ UNCHANGED <<aux_vars, max_workers, manager_bound, logged_error, jobs, next_id, clock, lock, stop_calls>>

\* Mutant of Promoted: the start timestamp is not recorded.
Promoted_NoStart(job) == [job EXCEPT !.state = "Running"]

\* The record of a job as it is promoted.
Promoted(job) == [job EXCEPT !.state = "Running", !.started = Some(Now)]

\* process_pending: promote the chosen job; its container runs in its own task.
SchedPromote ==
    /\ sched_pc = "start"
    /\ jobs' = [jobs EXCEPT ![picked] = Promoted(jobs[picked])]
    /\ picked' = 0
    /\ sched_pc' = "count"
    /\ resp' = NoResp
    /\ UNCHANGED <<aux_vars, max_workers, manager_bound, logged_error, next_id, clock, lock, stop_calls>>

\* Mutant of AfterTick: an error of process_pending ends the loop.
AfterTick_Break(res) == IF res = "Err" THEN "exited" ELSE "sleep"

\* if let Err(e) = ... { tracing::error!(...) }: the loop goes on to its sleep.
AfterTick(res) == "sleep"

\* process_pending: what the call can return.  Ok is returned once nothing is
\* left to promote (section 4.2: while the Running count is below the bound
\* and a job is Queued, the oldest Queued job is promoted).  When the call
\* returns Err is not said, so an Err may end a pass at any point between two
\* promotions.
process_pending_returns(res) == res = "Ok" => ~CanPromote

\* The loop takes whatever process_pending returns, whenever it returns: an
\* Err is logged, the guard is dropped and the loop sleeps for its interval.
SchedReturn(res) ==
    /\ sched_pc = "count"
    /\ process_pending_returns(res)
    /\ lock' = "free"
    /\ sched_pc' = AfterTick(res)
    /\ logged_error' = (res = "Err")
    /\ picked' = 0
    /\ resp' = NoResp
    /\ UNCHANGED <<aux_vars, max_workers, manager_bound, jobs, next_id, clock, stop_calls>>

SchedTick == \E res \in {"Ok", "Err"} : SchedReturn(res)

\* ------------------------------------------------- container executions
\* Mutant of FinishState: every finished execution counts as a success.
FinishState_AlwaysCompleted(code) == "Completed"

\* Terminal state for a finished execution.
FinishState(code) == IF code = 0 THEN "Completed" ELSE "Failed"

Outcomes == {"exit_zero", "exit_nonzero", "gateway_error"}

ExitCode(outcome) ==
    CASE outcome = "exit_zero" -> 0
      [] outcome = "exit_nonzero" -> 1
      [] OTHER -> -1

ErrorOf(outcome) ==
    CASE outcome = "exit_zero" -> None
      [] outcome = "exit_nonzero" -> Some("nonzero exit")
      [] OTHER -> Some("runtime gateway error")

\* The record of a job whose runAttached call has returned.
Finished(job, outcome) ==
    [job EXCEPT !.state = FinishState(ExitCode(outcome)),
                !.exit_code = Some(ExitCode(outcome)),
                !.finished = Some(Now),
                !.error = ErrorOf(outcome)]

\* runAttached(plan) returns for a Running job; the result is stored under the lock.
ContainerExit ==
    /\ LockFree
    /\ \E i \in Indices, outcome \in Outcomes :
         /\ jobs[i].state = "Running"
         /\ ~jobs[i].stop_requested
         /\ jobs' = [jobs EXCEPT ![i] = Finished(jobs[i], outcome)]
    /\ resp' = NoResp
    /\ UNCHANGED <<aux_vars, max_workers, manager_bound, logged_error, next_id, clock, lock, sched_pc,
                   picked, stop_calls>>

\* The record of a job whose stop request was answered.
Stopped(job, ok) ==
    IF ok
    THEN [job EXCEPT !.state = "Cancelled", !.finished = Some(Now),
                     !.exit_code = Some(137)]
    ELSE [job EXCEPT !.state = "Failed", !.finished = Some(Now),
                     !.error = Some("stop failed")]

\* stop(handle) returns for a job whose cancellation was requested.
StopResult ==
    /\ LockFree
    /\ \E i \in Indices, ok \in BOOLEAN :
         /\ jobs[i].state = "Running"
         /\ jobs[i].stop_requested
         /\ jobs' = [jobs EXCEPT ![i] = Stopped(jobs[i], ok)]
    /\ resp' = NoResp
    /\ UNCHANGED <<aux_vars, max_workers, manager_bound, logged_error, next_id, clock, lock, sched_pc,
                   picked, stop_calls>>

\* ------------------------------------------------------------ specification
Next ==
    \/ PostJobs
    \/ GetJobs
    \/ GetJob
    \/ DeleteJob
    \/ GetJobOutput
    \/ SchedAcquire
    \/ SchedPick
    \/ SchedPromote
    \/ SchedTick
    \/ ContainerExit
    \/ StopResult

Spec == Init /\ [][Next]_vars

\* ------------------------------------------------------ the whole router
\* The service with every request the router can be asked: those of the Job
\* Manager and those that reach none of its operations.
NextRouter ==
    \/ Next
    \/ OtherRequest

SpecRouter == Init /\ [][NextRouter]_vars

\* ------------------------------------- the service with output directories
\* Number of jobs submitted in a run that follows the output files.
MaxOutJobs == 2

\* POST /api/jobs with a plan that has an output directory or none.
PostJobsOut ==
    /\ Len(jobs) < MaxOutJobs
    /\ LockFree
    /\ \E plan \in OutputPlans : Dispatch("POST", "/api/jobs", 0, plan)

\* The container of a Running job leaves an entry in its output directory.
ContainerWrite ==
    /\ \E i \in Indices, e \in Entries :
         /\ jobs[i].state = "Running"
         /\ jobs[i].plan.output_dir # None
         /\ LET dir == jobs[i].plan.output_dir[1]
                old == IF fs[dir] = None THEN {} ELSE fs[dir][1]
            IN fs' = [fs EXCEPT ![dir] = Some(old \cup {e})]
    /\ resp' = NoResp
    /\ UNCHANGED <<job_vars, settings_vars, esc_vars, tool_vars, run_vars>>

NextOutput ==
    \/ PostJobsOut
    \/ DeleteJob
    \/ GetJobOutput
    \/ SchedAcquire
    \/ SchedPick
    \/ SchedPromote
    \/ SchedTick
    \/ ContainerExit
    \/ StopResult
    \/ ContainerWrite

SpecOutput == Init /\ [][NextOutput]_vars

\* ------------------------------------------- building the shell command line
\* Longest argument and largest number of arguments of a build.
MaxArgLen == 2
MaxEscArgs == 2

\* Characters of the arguments: a letter, a blank, both characters that
\* shell_escape rewrites or that end up inside quotes, the comment sign and
\* the tilde.
EscChars == {"a", " ", "'", "\\", "#", "~"}

\* Sequences over a set of at most n elements.
SeqsUpTo(S, n) == UNION {[1..k -> S] : k \in 0..n}

ArgStrings == SeqsUpTo(EscChars, MaxArgLen)

\* The backquote character, which no TLA+ string can hold, under a name.
Backquote == "BACKQUOTE"

\* The characters that make shell_escape quote its argument.
SpecialChars ==
    {" ", "\t", "\n", "\"", "'", "\\", "$", Backquote, "!", "*", "?", "[", "]",
     "{", "}", "(", ")", ";", "<", ">", "&", "|"}

\* str::replace in shell_escape: every single quote becomes the four
\* characters quote, backslash, quote, quote.
RECURSIVE ReplaceQuote(_)
ReplaceQuote(s) ==
    IF s = <<>> THEN <<>>
    ELSE (IF Head(s) = "'" THEN <<"'", "\\", "'", "'">> ELSE <<Head(s)>>)
            \o ReplaceQuote(Tail(s))

\* Mutant of shell_escape: embedded single quotes are left as they are.
shell_escape_NoReplace(s) ==
    IF \E i \in 1..Len(s) : s[i] \in SpecialChars
    THEN <<"'">> \o s \o <<"'">>
    ELSE s

\* shell_escape: single-quote the argument if it holds a special character.
shell_escape(s) ==
    IF \E i \in 1..Len(s) : s[i] \in SpecialChars
    THEN <<"'">> \o ReplaceQuote(s) \o <<"'">>
    ELSE s

\* escaped_args.join with a blank
RECURSIVE JoinBlank(_)
JoinBlank(ss) ==
    IF ss = <<>> THEN <<>>
    ELSE IF Len(ss) = 1 THEN ss[1]
    ELSE ss[1] \o <<" ">> \o JoinBlank(Tail(ss))

\* The script template of the build.
script_cmd == <<"r", "u", "n">>

\* full_command of run_project_with_options.
FullCommand(args) ==
    IF args = <<>> THEN script_cmd
    ELSE script_cmd \o <<" ">> \o JoinBlank([i \in 1..Len(args) |-> shell_escape(args[i])])

\* The value of HOME in the environment of /bin/sh.
HomeDir == <<"/", "h", "o", "m", "e", "/", "u">>

\* An unquoted tilde at the start of a word, kept apart from a quoted one
\* until the word is complete.
Tilde == "TILDE"

\* A quote or a backslash inside the tilde-prefix (the characters up to the
\* first slash) makes the tilde an ordinary character.
KeepTilde(cur) ==
    IF cur # <<>> /\ cur[1] = Tilde /\ \A k \in 1..Len(cur) : cur[k] # "/"
    THEN <<"~">> \o Tail(cur)
    ELSE cur

\* Tilde expansion of a complete word: a tilde alone or before a slash
\* becomes the value of HOME; a tilde followed by a login name stays as it
\* is, none of the names being a user of the host.
TildeExpand(cur) ==
    IF cur # <<>> /\ cur[1] = Tilde
    THEN IF Len(cur) = 1 \/ cur[2] = "/" THEN HomeDir \o Tail(cur)
         ELSE <<"~">> \o Tail(cur)
    ELSE cur

\* Token recognition and tilde expansion of the POSIX shell for a simple
\* command: blanks delimit words, single quotes keep everything up to the
\* closing quote, a backslash keeps the next character, # at the start of a
\* word begins a comment that runs to the end of the line, and an unquoted
\* tilde at the start of a word is expanded.  cur is the word read so far
\* and has tells whether a word is open (a word may be empty, as in '').
RECURSIVE Tokenize(_, _, _, _, _, _)
Tokenize(text, i, mode, cur, has, acc) ==
    IF i > Len(text) THEN (IF has THEN Append(acc, TildeExpand(cur)) ELSE acc)
    ELSE LET c == text[i] IN
         IF mode = "quote"
         THEN IF c = "'" THEN Tokenize(text, i + 1, "plain", cur, TRUE, acc)
              ELSE Tokenize(text, i + 1, "quote", Append(cur, c), TRUE, acc)
         ELSE IF mode = "comment"
         THEN IF c = "\n" THEN Tokenize(text, i + 1, "plain", <<>>, FALSE, acc)
              ELSE Tokenize(text, i + 1, "comment", cur, has, acc)
         ELSE IF c = "'" THEN Tokenize(text, i + 1, "quote", KeepTilde(cur), TRUE, acc)
         ELSE IF c = "\\"
         THEN IF i < Len(text)
              THEN Tokenize(text, i + 2, "plain",
                            Append(KeepTilde(cur), text[i + 1]), TRUE, acc)
              ELSE Tokenize(text, i + 1, "plain", Append(KeepTilde(cur), c), TRUE, acc)
         ELSE IF c \in {" ", "\t", "\n"}
         THEN Tokenize(text, i + 1, "plain", <<>>, FALSE,
                       IF has THEN Append(acc, TildeExpand(cur)) ELSE acc)
         ELSE IF c = "#" /\ ~has THEN Tokenize(text, i + 1, "comment", cur, has, acc)
         ELSE IF c = "~" /\ ~has
         THEN Tokenize(text, i + 1, "plain", Append(cur, Tilde), TRUE, acc)
         ELSE Tokenize(text, i + 1, "plain", Append(cur, c), TRUE, acc)

\* The words the shell passes on for a command line.
ShellTokens(text) == Tokenize(text, 1, "plain", <<>>, FALSE, <<>>)

\* The caller adds one more argument.
PushArg ==
    /\ full_command = None
    /\ Len(esc_args) < MaxEscArgs
    /\ \E s \in ArgStrings : esc_args' = Append(esc_args, s)
    /\ UNCHANGED <<job_vars, settings_vars, resp, fs_vars, full_command, tool_vars, run_vars>>

\* run_project_with_options builds the command line for /bin/sh -c.
BuildFullCommand ==
    /\ full_command = None
    /\ full_command' = Some(FullCommand(esc_args))
    /\ UNCHANGED <<job_vars, settings_vars, resp, fs_vars, esc_args, tool_vars, run_vars>>

NextEscape ==
    \/ PushArg
    \/ BuildFullCommand

SpecEscape == Init /\ [][NextEscape]_vars

\* ------------------------------------------------------------ running a tool
\* Largest number of --input arguments of a run.
MaxInputs == 2

\* Strings of run_tool are sequences of atoms; the equals sign and the path
\* separator are atoms of their own.
Eq == "="
Slash == "/"

\* The host filesystem the inputs may name: two files of the same base name
\* and two directories, one of each given relative to the working directory.
HostFiles == { <<Slash, "data", Slash, "a.tif">>, <<"a.tif">> }
HostDirs == { <<Slash, "data", Slash, "d1">>, <<"d2">> }
Cwd == <<Slash, "work", Slash>>

\* Path::exists, Path::is_file, Path::is_dir
exists(path) == path \in HostFiles \cup HostDirs
is_file(path) == path \in HostFiles
is_dir(path) == path \in HostDirs

\* Mutant of canonicalize: the path is used as it was given.
canonicalize_AsGiven(path) == path

\* Path::canonicalize: the absolute path (the model has no links or dots).
canonicalize(path) ==
    IF path # <<>> /\ path[1] = Slash THEN path ELSE Cwd \o path

\* Path::file_name: the last component.
file_name(path) ==
    LET slashes == {i \in 1..Len(path) : path[i] = Slash}
        start == IF slashes = {} THEN 1
                 ELSE (CHOOSE i \in slashes : \A j \in slashes : j <= i) + 1
    IN SubSeq(path, start, Len(path))

\* gis.tools of geoengine.yaml: a tool with an input that maps to another
\* flag and an input that does not, and a tool without input definitions
\* whose script the project does not define.
ToolDefs ==
    << [name |-> "classify", script |-> "classify",
        inputs |-> Some(<< [name |-> <<"in">>, map_to |-> Some(<<"input-file">>)],
                           [name |-> <<"dem">>, map_to |-> None] >>)],
       [name |-> "convert", script |-> "convert", inputs |-> None] >>

ToolNames == {"classify", "convert", "missing"}

\* Mutant of FindTool: a name that no tool has resolves to the first tool.
FindTool_First(name) ==
    LET hits == {i \in 1..Len(ToolDefs) : ToolDefs[i].name = name} IN
    IF hits = {} THEN Some(ToolDefs[1])
    ELSE Some(ToolDefs[CHOOSE i \in hits : \A j \in hits : i <= j])

\* tools.iter().find(|t| t.name == tool_name)
FindTool(name) ==
    LET hits == {i \in 1..Len(ToolDefs) : ToolDefs[i].name = name} IN
    IF hits = {} THEN None
    ELSE Some(ToolDefs[CHOOSE i \in hits : \A j \in hits : i <= j])

\* KEY=VALUE
KeyValue(key, value) == key \o <<Eq>> \o value

\* The raw --input arguments a caller may give.
RawInputs ==
    {KeyValue(<<"in">>, <<Slash, "data", Slash, "a.tif">>),
     KeyValue(<<"in">>, <<Slash, "data", Slash, "d1">>),
     KeyValue(<<"in">>, <<"d2">>),
     KeyValue(<<"dem">>, <<Slash, "data", Slash, "d1">>),
     KeyValue(<<"dem">>, <<"a.tif">>),
     KeyValue(<<"dem">>, <<"5">>),
     KeyValue(<<"mode">>, <<"5">>),
     KeyValue(<<"mode">>, <<"a", Eq, "b">>),
     <<"mode">>}

ArgLists == SeqsUpTo(RawInputs, MaxInputs)
\* The --output-dir a caller may give: none, a directory still to be
\* created, and the name of an existing regular file.
OutputDirs == {None, Some(<<"out">>), Some(<<"a.tif">>)}

\* The orders in which a set can be enumerated.
Orders(S) ==
    {f \in [1..Cardinality(S) -> S] : \A i, j \in DOMAIN f : f[i] = f[j] => i = j}

\* The rearrangements of a sequence.
Rearrangements(seq) ==
    {[i \in 1..Len(seq) |-> seq[ord[i]]] : ord \in Orders(1..Len(seq))}

\* Mutant of splitn2: the argument is split at every equals sign.
RECURSIVE splitn2_SplitAll(_)
splitn2_SplitAll(arg) ==
    LET at == {i \in 1..Len(arg) : arg[i] = Eq} IN
    IF at = {} THEN <<arg>>
    ELSE LET p == CHOOSE i \in at : \A j \in at : i <= j
         IN <<SubSeq(arg, 1, p - 1)>> \o splitn2_SplitAll(SubSeq(arg, p + 1, Len(arg)))

\* arg.splitn(2, '='): at most two parts, split at the first equals sign.
splitn2(arg) ==
    LET at == {i \in 1..Len(arg) : arg[i] = Eq} IN
    IF at = {} THEN <<arg>>
    ELSE LET p == CHOOSE i \in at : \A j \in at : i <= j
         IN <<SubSeq(arg, 1, p - 1), SubSeq(arg, p + 1, Len(arg))>>

\* Mutant of insert: a key that is already present keeps its value.
insert_KeepFirst(map, key, value) ==
    [k \in DOMAIN map \cup {key} |-> IF k \in DOMAIN map THEN map[k] ELSE value]

\* HashMap::insert
insert(map, key, value) ==
    [k \in DOMAIN map \cup {key} |-> IF k = key THEN value ELSE map[k]]

\* The errors of run_tool.
ToolNotFound(name) == [kind |-> "ToolNotFound", token |-> <<name>>]
InvalidInput(arg) == [kind |-> "InvalidInput", token |-> arg]
CreateOutputDirFailed(out_dir) == [kind |-> "CreateOutputDirFailed", token |-> out_dir]
ResolveOutputDirFailed(out_dir) == [kind |-> "ResolveOutputDirFailed", token |-> out_dir]

\* The key of an output directory in fs.
DirKey(path) == path[Len(path)]

\* std::fs::create_dir_all on a filesystem: an error if the path is a
\* regular file, nothing to do if the directory exists, else the directory
\* is created empty.
create_dir_all(files, out_dir) ==
    IF is_file(out_dir) THEN [error |-> TRUE, fs |-> files]
    ELSE IF is_dir(out_dir) \/ files[DirKey(out_dir)] # None
    THEN [error |-> FALSE, fs |-> files]
    ELSE [error |-> FALSE, fs |-> [files EXCEPT ![DirKey(out_dir)] = Some({})]]

\* Path::canonicalize of an output directory on a filesystem: Some(absolute
\* path) if the path exists, None (the Err) if it does not.
canonicalize_dir(files, out_dir) ==
    IF \/ exists(out_dir)
       \/ (DirKey(out_dir) \in DOMAIN files /\ files[DirKey(out_dir)] # None)
    THEN Some(canonicalize(out_dir))
    ELSE None

\* Step 2 of run_tool: the loop over input_args.
RECURSIVE ParseArgs(_, _)
ParseArgs(args, map) ==
    IF args = <<>> THEN [error |-> None, inputs |-> map]
    ELSE LET parts == splitn2(Head(args)) IN
         IF Len(parts) # 2
         THEN [error |-> Some(InvalidInput(Head(args))), inputs |-> map]
         ELSE ParseArgs(Tail(args), insert(map, parts[1], parts[2]))

\* A mount of run_tool: (host path, container path, readonly).
Mount(host, container, readonly) ==
    [host |-> host, container |-> container, readonly |-> readonly]

\* Mutant of flag_name: the key is the flag, whatever the tool defines.
flag_name_KeyOnly(key) == key

\* flag_name of step 5: map_to of the tool's input of that name, else its
\* name, else the key itself.
flag_name(key) ==
    LET tool_inputs == FindTool(tool_name)[1].inputs
        hits == IF tool_inputs = None THEN {}
                ELSE {i \in 1..Len(tool_inputs[1]) : tool_inputs[1][i].name = key}
    IN IF hits = {} THEN key
       ELSE LET i == tool_inputs[1][CHOOSE h \in hits : \A j \in hits : h <= j]
            IN IF i.map_to # None THEN i.map_to[1] ELSE i.name

\* Mutant of mnt_path: every directory gets the index 0.
mnt_path_Fixed(input_counter) == <<Slash, "mnt", Slash, "input_", ToString(0)>>

\* format!("/mnt/input_{}", input_counter)
mnt_path(input_counter) ==
    <<Slash, "mnt", Slash, "input_", ToString(input_counter)>>

\* Mutant of output_mount: the output directory is mounted read-only.
output_mount_ReadOnly(abs_out) == Mount(abs_out, <<Slash, "output">>, TRUE)

\* The mount of the output directory in step 4.
output_mount(abs_out) == Mount(abs_out, <<Slash, "output">>, FALSE)

\* Step 5 of run_tool: the loop over the HashMap, which visits its keys in
\* the given order.
RECURSIVE BuildFrom(_, _, _, _)
BuildFrom(order, mounts, input_counter, args) ==
    IF order = <<>> THEN [mounts |-> mounts, args |-> args]
    ELSE LET key == Head(order)
             value == inputs[key]
             as_file == exists(value) /\ is_file(value)
             as_dir == exists(value) /\ ~is_file(value) /\ is_dir(value)
             container_path ==
                 IF as_file THEN <<Slash, "inputs", Slash>> \o file_name(value)
                 ELSE IF as_dir
                 THEN mnt_path(input_counter)
                 ELSE value
         IN BuildFrom(Tail(order),
                      IF as_file \/ as_dir
                      THEN Append(mounts, Mount(canonicalize(value), container_path, TRUE))
                      ELSE mounts,
                      IF as_dir THEN input_counter + 1 ELSE input_counter,
                      args \o << <<"--">> \o flag_name(key), container_path >>)

\* geoengine run <tool> --input ... [--output-dir ...]
Invoke ==
    /\ rt_pc = "idle"
    /\ \E t \in ToolNames, a \in ArgLists, o \in OutputDirs :
          /\ tool_name' = t
          /\ input_args' = a
          /\ output_dir' = o
    /\ rt_pc' = "lookup"
    /\ UNCHANGED <<job_vars, settings_vars, resp, fs_vars, esc_vars, run_vars, inputs, extra_mounts,
                   extra_env, script_args, rt_error, delegated, prev_script_args>>

\* Step 1 of run_tool: find the tool definition.
ToolLookup ==
    /\ rt_pc = "lookup"
    /\ IF FindTool(tool_name) = None
       THEN /\ rt_error' = Some(ToolNotFound(tool_name))
            /\ rt_pc' = "failed"
       ELSE /\ rt_error' = rt_error
            /\ rt_pc' = "parse"
    /\ UNCHANGED <<job_vars, settings_vars, resp, fs_vars, esc_vars, run_vars, tool_name, input_args,
                   output_dir, inputs, extra_mounts, extra_env, script_args,
                   delegated, prev_script_args>>

\* Step 2 of run_tool: parse the raw inputs into the HashMap.
ParseInputs ==
    /\ rt_pc = "parse"
    /\ LET parsed == ParseArgs(input_args, EmptyMap) IN
          IF parsed.error # None
          THEN /\ rt_error' = parsed.error
               /\ rt_pc' = "failed"
               /\ inputs' = inputs
          ELSE /\ rt_error' = rt_error
               /\ rt_pc' = "outdir"
               /\ inputs' = parsed.inputs
    /\ UNCHANGED <<job_vars, settings_vars, resp, fs_vars, esc_vars, run_vars, tool_name, input_args,
                   output_dir, extra_mounts, extra_env, script_args, delegated,
                   prev_script_args>>

\* Step 4 of run_tool: create and mount the output directory; the run ends
\* with an error if the directory cannot be created or resolved.
OutputDirMount ==
    /\ rt_pc = "outdir"
    /\ IF output_dir # None
       THEN LET out_dir == output_dir[1]
                created == create_dir_all(fs, out_dir)
                abs_out == canonicalize_dir(created.fs, out_dir)
            IN IF created.error
               THEN /\ rt_error' = Some(CreateOutputDirFailed(out_dir))
                    /\ rt_pc' = "failed"
                    /\ UNCHANGED <<fs, extra_mounts, extra_env>>
               ELSE IF abs_out = None
               THEN /\ rt_error' = Some(ResolveOutputDirFailed(out_dir))
                    /\ rt_pc' = "failed"
                    /\ fs' = created.fs
                    /\ UNCHANGED <<extra_mounts, extra_env>>
               ELSE /\ fs' = created.fs
                    /\ extra_mounts' = Append(extra_mounts, output_mount(abs_out[1]))
                    /\ extra_env' = insert(extra_env, "GEOENGINE_OUTPUT_DIR",
                                           <<Slash, "output">>)
                    /\ rt_error' = rt_error
                    /\ rt_pc' = "build"
       ELSE /\ rt_pc' = "build"
            /\ UNCHANGED <<fs, extra_mounts, extra_env, rt_error>>
    /\ UNCHANGED <<job_vars, settings_vars, resp, esc_vars, run_vars, tool_name, input_args, output_dir,
                   inputs, script_args, delegated, prev_script_args>>

\* Step 5 of run_tool: one --flag value pair per entry of the HashMap, in
\* the order the HashMap happens to iterate.
BuildArgs ==
    /\ rt_pc = "build"
    /\ \E order \in Orders(DOMAIN inputs) :
          LET built == BuildFrom(order, extra_mounts, 0, <<>>) IN
             /\ script_args' = built.args
             /\ extra_mounts' = built.mounts
    /\ rt_pc' = "delegate"
    /\ UNCHANGED <<job_vars, settings_vars, resp, fs_vars, esc_vars, run_vars, tool_name, input_args,
                   output_dir, inputs, extra_env, rt_error, delegated,
                   prev_script_args>>

\* Step 6 of run_tool: hand over to run_project_with_options.
Delegate ==
    /\ rt_pc = "delegate"
    /\ delegated' = Some([script |-> FindTool(tool_name)[1].script,
                          args |-> script_args,
                          extra_mounts |-> extra_mounts,
                          extra_env |-> extra_env,
                          output_dir |-> output_dir])
    /\ rt_pc' = "done"
    /\ UNCHANGED <<job_vars, settings_vars, resp, fs_vars, esc_vars, run_vars, tool_name, input_args,
                   output_dir, inputs, extra_mounts, extra_env, script_args,
                   rt_error, prev_script_args>>

\* The same tool is run once more on the same inputs, given in any order.
Rebuild ==
    /\ rt_pc = "done"
    /\ rp_pc = "idle"
    /\ prev_script_args = None
    /\ input_args' \in Rearrangements(input_args)
    /\ prev_script_args' = Some(script_args)
    /\ inputs' = EmptyMap
    /\ extra_mounts' = <<>>
    /\ extra_env' = EmptyMap
    /\ script_args' = <<>>
    /\ delegated' = None
    /\ rt_pc' = "lookup"
    /\ UNCHANGED <<job_vars, settings_vars, resp, fs_vars, esc_vars, run_vars, tool_name, output_dir, rt_error>>

\* scripts of geoengine.yaml: the command template of every script.
Scripts == [s \in {"classify"} |-> script_cmd]

\* The registered path of the project.
ProjectPath == <<Slash, "proj">>

\* runtime.environment of geoengine.yaml.
ConfigEnv ==
    [k \in {"GEOENGINE_OUTPUT_DIR", "GDAL_CACHEMAX"} |->
        IF k = "GEOENGINE_OUTPUT_DIR" THEN <<Slash, "data", Slash, "out">> ELSE <<"512">>]

\* runtime.mounts of geoengine.yaml: one given relative to the project with
\* no read-only flag, one absolute and read-only.
ConfigMounts ==
    << [host |-> <<".", Slash, "data", Slash, "a.tif">>,
        container |-> <<Slash, "inputs", Slash, "a.tif">>,
        readonly |-> None],
       [host |-> <<Slash, "etc", Slash, "gdal">>,
        container |-> <<Slash, "etc", Slash, "gdal">>,
        readonly |-> Some(TRUE)] >>

\* Path::join: an absolute path replaces the base; any other path is put
\* after the base, with a separator unless the base ends with one.
join(base, path) ==
    IF path # <<>> /\ path[1] = Slash THEN path
    ELSE IF base = <<>> \/ base[Len(base)] = Slash THEN base \o path
    ELSE base \o <<Slash>> \o path

\* The host path of a configured mount: what follows a leading ./ is joined
\* to the project path; any other host is taken as it is.
host_path(host) ==
    IF Len(host) >= 2 /\ host[1] = "." /\ host[2] = Slash
    THEN join(ProjectPath, SubSeq(host, 3, Len(host)))
    ELSE host

\* Option::unwrap_or
unwrap_or(opt, default) == IF opt = None THEN default ELSE opt[1]

\* The mounts built from the configuration.
config_mounts ==
    [i \in 1..Len(ConfigMounts) |->
        Mount(host_path(ConfigMounts[i].host), ConfigMounts[i].container,
              unwrap_or(ConfigMounts[i].readonly, FALSE))]

\* Mutant of extend: a key that is already present keeps its value.
extend_KeepExisting(map, other) ==
    [k \in DOMAIN map \cup DOMAIN other |-> IF k \in DOMAIN map THEN map[k] ELSE other[k]]

\* HashMap::extend
extend(map, other) ==
    [k \in DOMAIN map \cup DOMAIN other |-> IF k \in DOMAIN other THEN other[k] ELSE map[k]]

\* The errors of run_project_with_options.
ScriptNotFound(script) == [kind |-> "ScriptNotFound", token |-> <<script>>]
GatewayError == [kind |-> "RuntimeGatewayError", token |-> <<>>]

\* The exit codes a container may end with.
ContainerExitCodes == {0, 1, 137}

\* Mutant of RunStatus: every run is reported as completed.
RunStatus_AlwaysCompleted(code) == "completed"

\* status of RunToolResult
RunStatus(code) == IF code = 0 THEN "completed" ELSE "failed"

\* error of RunToolResult
RunError(code) ==
    IF code # 0 THEN Some(<<"Container exited with code", ToString(code)>>) ELSE None

\* The exit code of the CLI process: that of process::exit if called, else
\* 0.  The cast to i32 keeps every exit code a container can end with.
ProcessExit(code) == IF code # 0 THEN code ELSE 0

\* run_project_with_options is entered and looks the script up.
ScriptLookup ==
    /\ rt_pc = "done"
    /\ rp_pc = "idle"
    /\ json_output' \in BOOLEAN
    /\ IF delegated[1].script \in DOMAIN Scripts
       THEN /\ rp_pc' = "config"
            /\ rp_error' = rp_error
       ELSE /\ rp_pc' = "failed"
            /\ rp_error' = Some(ScriptNotFound(delegated[1].script))
    /\ UNCHANGED <<job_vars, settings_vars, resp, fs_vars, esc_vars, tool_vars, container_config,
                   exit_code, result, process_exit>>

\* The environment, the mounts and the command are put together.
BuildContainerConfig ==
    /\ rp_pc = "config"
    /\ container_config' =
          Some([command |-> <<"/bin/sh", "-c", FullCommand(delegated[1].args)>>,
                env_vars |-> extend(ConfigEnv, delegated[1].extra_env),
                mounts |-> config_mounts \o delegated[1].extra_mounts,
                remove_on_exit |-> TRUE,
                detach |-> FALSE,
                tty |-> ~json_output])
    /\ rp_pc' = "run"
    /\ UNCHANGED <<job_vars, settings_vars, resp, fs_vars, esc_vars, tool_vars, rp_error,
                   json_output, exit_code, result, process_exit>>

\* The host filesystem when the container has ended: the container may have
\* added entries to the output directory mounted at /output (the only
\* directory of fs that exists during a run), or the directory was removed
\* while the container ran.
AfterRun(files) ==
    LET dirs == {k \in DOMAIN files : files[k] # None} IN
    {files}
      \cup {[files EXCEPT ![d] = Some(@[1] \cup written)] :
               d \in dirs, written \in SUBSET Entries}
      \cup {[files EXCEPT ![d] = None] : d \in dirs}

\* The container runs attached and exits, or the gateway fails.
RunContainer ==
    /\ rp_pc = "run"
    /\ \/ /\ \E code \in ContainerExitCodes : exit_code' = Some(code)
          /\ fs' \in AfterRun(fs)
          /\ rp_pc' = "report"
          /\ rp_error' = rp_error
       \/ /\ exit_code' = exit_code
          /\ fs' = fs
          /\ rp_pc' = "failed"
          /\ rp_error' = Some(GatewayError)
    /\ UNCHANGED <<job_vars, settings_vars, resp, esc_vars, tool_vars, json_output,
                   container_config, result, process_exit>>

\* The result is printed in structured-output mode and the process ends.
HandleOutput ==
    /\ rp_pc = "report"
    /\ LET code == exit_code[1]
           options == delegated[1]
       IN /\ result' =
                IF json_output
                THEN Some([status |-> RunStatus(code),
                           exit_code |-> code,
                           output_dir |->
                               IF options.output_dir = None THEN None
                               ELSE Some(unwrap_or(
                                       canonicalize_dir(fs, options.output_dir[1]),
                                       options.output_dir[1])),
                           files |-> collect_output_files(
                                        IF options.output_dir = None THEN None
                                        ELSE Some(DirKey(options.output_dir[1]))),
                           error |-> RunError(code)])
                ELSE None
          /\ process_exit' = Some(ProcessExit(code))
    /\ rp_pc' = "exited"
    /\ UNCHANGED <<job_vars, settings_vars, resp, fs_vars, esc_vars, tool_vars, rp_error,
                   json_output, container_config, exit_code>>

\* The --flag value pairs of a list of script arguments, in their order.
Pairs(args) ==
    [i \in 1..(Len(args) \div 2) |-> [flag |-> args[2 * i - 1], value |-> args[2 * i]]]

\* Whether a raw input has an equals sign, and its key and value if it has.
WellFormed(arg) == \E i \in 1..Len(arg) : arg[i] = Eq
KeyOf(arg) == splitn2(arg)[1]
ValueOf(arg) == splitn2(arg)[2]

\* The value of the pair built for a key.
PairValue(key) ==
    LET pairs == Pairs(script_args)
        n == CHOOSE i \in DOMAIN pairs : pairs[i].flag = <<"--">> \o flag_name(key)
    IN pairs[n].value

NextTool ==
    \/ Invoke
    \/ ToolLookup
    \/ ParseInputs
    \/ OutputDirMount
    \/ BuildArgs
    \/ Delegate
    \/ Rebuild
    \/ ScriptLookup
    \/ BuildContainerConfig
    \/ RunContainer
    \/ HandleOutput

\* One proxy configuration is enough for the runs of a tool.
InitTool == Init /\ max_workers = 1

SpecTool == InitTool /\ [][NextTool]_vars

\* --------------------------------------------------------------- Settings
\* Paths given to register_project: two spellings of one directory and
\* another directory.
ProjectPaths ==
    {<<Slash, "proj", Slash, "a">>,
     <<Slash, "proj", Slash, "a", Slash>>,
     <<Slash, "proj", Slash, "b">>}

\* Path::components, by which two PathBuf values are compared: the root, then
\* the names between separators; repeated and trailing separators and "."
\* after the first component do not count.
components(path) ==
    LET names == SelectSeq(path, LAMBDA a : a # Slash /\ a # ".")
    IN  IF path # <<>> /\ path[1] = Slash THEN <<"RootDir">> \o names
        ELSE IF path # <<>> /\ path[1] = "." THEN <<"CurDir">> \o names
        ELSE names

\* HashMap::remove
remove(map, key) == [k \in DOMAIN map \ {key} |-> map[k]]

\* The errors of Settings.
AlreadyRegistered(name, existing) ==
    [kind |-> "AlreadyRegistered", name |-> name, at |-> Some(existing)]
NotRegistered(name) == [kind |-> "NotRegistered", name |-> name, at |-> None]

\* Mutant of register_project: the existing registration is not looked at.
register_project_Overwrite(self, name, path) ==
    [result |-> None, projects |-> insert(self, name, path)]

\* Settings::register_project: the result (None for Ok(()), Some(error) for
\* Err) and the project map after the call.
register_project(self, name, path) ==
    IF name \in DOMAIN self /\ components(self[name]) # components(path)
    THEN [result |-> Some(AlreadyRegistered(name, self[name])), projects |-> self]
    ELSE [result |-> None, projects |-> insert(self, name, path)]

\* Settings::unregister_project
unregister_project(self, name) ==
    IF name \notin DOMAIN self
    THEN [result |-> Some(NotRegistered(name)), projects |-> self]
    ELSE [result |-> None, projects |-> remove(self, name)]

\* A call of register_project on the settings. The record of the call
\* alternates a bit, so that two equal calls in a row are two steps.
RegisterProject ==
    \E name \in ProjectNames, path \in ProjectPaths :
        LET r == register_project(projects, name, path)
            seq == IF settings_call = None THEN 0 ELSE 1 - settings_call[1].seq
        IN  /\ projects' = r.projects
            /\ settings_call' = Some([op |-> "register_project", name |-> name,
                                      path |-> Some(path), result |-> r.result,
                                      seq |-> seq])
            /\ UNCHANGED <<job_vars, resp, fs_vars, esc_vars, tool_vars, run_vars>>

\* A call of unregister_project on the settings.
UnregisterProject ==
    \E name \in ProjectNames :
        LET r == unregister_project(projects, name)
            seq == IF settings_call = None THEN 0 ELSE 1 - settings_call[1].seq
        IN  /\ projects' = r.projects
            /\ settings_call' = Some([op |-> "unregister_project", name |-> name,
                                      path |-> None, result |-> r.result,
                                      seq |-> seq])
            /\ UNCHANGED <<job_vars, resp, fs_vars, esc_vars, tool_vars, run_vars>>

NextSettings ==
    \/ RegisterProject
    \/ UnregisterProject

SpecSettings == Init /\ [][NextSettings]_vars

\* ------------------------------------------------------------------ claims
\* C1: in every reachable state the number of Running jobs is at most the
\* concurrency bound max_workers that ProxyServer::run was given.
RunningWithinBound == RunningCount <= max_workers

\* The bound is reached while another job waits in the queue.
RunningWithinBound_Witness ==
    /\ max_workers > 1
    /\ RunningCount = max_workers
    /\ QueuedIndices # {}
    /\ sched_pc = "sleep"

\* C2: a job is promoted from Queued to Running only when no job submitted
\* before it is still Queued, so jobs reach Running in submission order.
FifoPromotion ==
    [][\A b \in 1..Len(jobs) :
          (jobs[b].state = "Queued" /\ jobs'[b].state = "Running")
             => \A a \in 1..(b - 1) : jobs[a].state # "Queued"]_vars

\* With bound 1: the first job is done, the second runs, the third waits.
FifoPromotion_Witness ==
    /\ max_workers = 1
    /\ Len(jobs) = 3
    /\ jobs[1].state = "Completed"
    /\ jobs[2].state = "Running"
    /\ jobs[3].state = "Queued"

\* C3: a cancel applied to a Queued job makes it Cancelled, and a job
\* cancelled while Queued stays Cancelled: the scheduler never starts it.
CancelledQueuedNeverRuns ==
    [][\A i \in 1..Len(jobs) :
          /\ (jobs[i].state = "Queued" /\ resp'.method = "DELETE"
                 /\ resp'.id = jobs[i].id)
                => jobs'[i].state = "Cancelled"
          /\ (jobs[i].state = "Cancelled" /\ ~jobs[i].stop_requested)
                => jobs'[i].state = "Cancelled"]_vars

\* A job was cancelled while Queued and the scheduler has since promoted the
\* job submitted after it.
CancelledQueuedNeverRuns_Witness ==
    /\ Len(jobs) >= 2
    /\ jobs[1].state = "Cancelled"
    /\ ~jobs[1].stop_requested
    /\ jobs[2].state = "Running"

LegalTransitions ==
    {<<"Queued", "Running">>, <<"Queued", "Cancelled">>,
     <<"Running", "Completed">>, <<"Running", "Failed">>,
     <<"Running", "Cancelled">>}

\* C4: a job changes state only along Queued->Running, Queued->Cancelled,
\* Running->Completed, Running->Failed, Running->Cancelled; a terminal job
\* never changes state again.
OnlyLegalTransitions ==
    [][\A i \in 1..Len(jobs) :
          \/ jobs'[i].state = jobs[i].state
          \/ <<jobs[i].state, jobs'[i].state>> \in LegalTransitions]_vars

\* Every terminal state has been reached by some job.
OnlyLegalTransitions_Witness ==
    \A st \in Terminal : \E i \in Indices : jobs[i].state = st

\* C5: DELETE /api/jobs/{id} on a job that is Completed, Failed or Cancelled
\* answers 409 Conflict, leaves the whole registry unchanged and requests no stop.
CancelTerminalConflict ==
    [][\A i \in 1..Len(jobs) :
          (jobs[i].state \in Terminal /\ resp'.method = "DELETE"
              /\ resp'.id = jobs[i].id)
             => /\ resp'.code = 409
                /\ jobs' = jobs
                /\ stop_calls' = stop_calls
                /\ next_id' = next_id
                /\ clock' = clock
                /\ manager_bound' = manager_bound]_vars

\* A cancel of a Completed job was answered with 409.
CancelTerminalConflict_Witness ==
    \E i \in Indices :
        /\ jobs[i].state = "Completed"
        /\ resp = Response("DELETE", "/api/jobs/:id", jobs[i].id, 409)

UniqueJobIds ==
    [][Len(jobs') > Len(jobs) =>
          /\ resp'.method = "POST"
          /\ resp'.id = jobs'[Len(jobs')].id
          /\ resp'.id \notin JobIds(jobs)
          /\ Cardinality(JobIds(jobs')) = Len(jobs')]_vars

\* The last submit returns after earlier jobs were cancelled and completed.
UniqueJobIds_Witness ==
    /\ Len(jobs) = MaxJobs
    /\ resp.method = "POST"
    /\ resp.id = jobs[MaxJobs].id
    /\ \E i, k \in Indices :
          jobs[i].state = "Cancelled" /\ jobs[k].state = "Completed"

\* C9: a step that makes one job Failed changes no other job, and the
\* scheduler loop never leaves its cycle, whatever process_pending returns.
FailureIsolated ==
    [][/\ \A i \in 1..Len(jobs) :
             (jobs[i].state # "Failed" /\ jobs'[i].state = "Failed")
                => /\ Len(jobs') = Len(jobs)
                   /\ \A k \in 1..Len(jobs) : k # i => jobs'[k] = jobs[k]
       /\ sched_pc' \in {"sleep", "count", "start"}]_vars

\* The first job failed, the latest scheduler pass ended in a logged error,
\* and the loop is in its next pass, promoting the job that was left queued.
FailureIsolated_Witness ==
    /\ Len(jobs) >= 2
    /\ jobs[1].state = "Failed"
    /\ logged_error
    /\ sched_pc = "start"
    /\ jobs[picked].state = "Queued"

\* C10: when the execution of a Running job finishes, the job becomes
\* Completed or Failed with finish timestamp and exit code set, Completed
\* exactly for exit code 0, Failed with its error recorded; the step answers
\* no request, and a submit is always answered 201.
FinishRecorded ==
    [][/\ \A i \in 1..Len(jobs) :
             (jobs[i].state = "Running" /\ ~jobs[i].stop_requested
                 /\ jobs'[i].state # "Running")
                => /\ jobs'[i].state \in {"Completed", "Failed"}
                   /\ jobs'[i].finished # None
                   /\ jobs'[i].exit_code # None
                   /\ jobs'[i].state = "Completed" <=> jobs'[i].exit_code = Some(0)
                   /\ jobs'[i].state = "Failed" => jobs'[i].error # None
                   /\ resp' = NoResp
       /\ resp'.method = "POST" => resp'.code = 201]_vars

\* One job completed with exit code 0; others failed on a nonzero exit and
\* on a Runtime Gateway error.
FinishRecorded_Witness ==
    \E i, k, n \in Indices :
        /\ jobs[i].state = "Completed" /\ jobs[i].exit_code = Some(0)
        /\ jobs[k].state = "Failed" /\ jobs[k].exit_code = Some(1)
        /\ jobs[n].state = "Failed" /\ jobs[n].exit_code = Some(-1)
        /\ jobs[k].error # None /\ jobs[n].error # None

\* C11: DELETE on a Running job requests a stop of the Runtime Gateway; a
\* job whose stop was requested leaves Running only to Cancelled (stop
\* confirmed) or to Failed with the stop error recorded, never to Completed.
CancelRunningStops ==
    [][\A i \in 1..Len(jobs) :
          /\ (jobs[i].state = "Running" /\ resp'.method = "DELETE"
                 /\ resp'.id = jobs[i].id)
                => /\ jobs[i].id \in stop_calls'
                   /\ jobs'[i].stop_requested
                   /\ resp'.code = 200
          /\ (jobs[i].state = "Running" /\ jobs[i].stop_requested
                 /\ jobs'[i].state # "Running")
                => \/ jobs'[i].state = "Cancelled"
                   \/ /\ jobs'[i].state = "Failed"
                      /\ jobs'[i].error = Some("stop failed")]_vars

\* One cancelled job was stopped, the stop of another failed.
CancelRunningStops_Witness ==
    \E i, k \in Indices :
        /\ jobs[i].state = "Cancelled" /\ jobs[i].id \in stop_calls
        /\ jobs[k].state = "Failed" /\ jobs[k].id \in stop_calls
        /\ jobs[k].error = Some("stop failed")

\* C12: with W + 1 jobs submitted and none finished or cancelled, once a
\* scheduler pass has returned Ok the W earliest jobs are Running and the
\* last is Queued; a Queued job is promoted only when fewer than W jobs run.
BoundPlusOneWaits ==
    /\ [](( /\ Len(jobs) = max_workers + 1
            /\ \A i \in Indices : jobs[i].state \notin Terminal
            /\ sched_pc = "sleep" /\ resp = NoResp /\ ~logged_error )
          => /\ \A i \in 1..max_workers : jobs[i].state = "Running"
             /\ jobs[max_workers + 1].state = "Queued")
    /\ [][\A i \in 1..Len(jobs) :
             (jobs[i].state = "Queued" /\ jobs'[i].state = "Running")
                => RunningCount < max_workers]_vars

\* W + 1 jobs, no job finished, a pass has just returned: the last job waits.
BoundPlusOneWaits_Witness ==
    /\ Len(jobs) = max_workers + 1
    /\ \A i \in Indices : jobs[i].state \notin Terminal
    /\ sched_pc = "sleep" /\ resp = NoResp /\ ~logged_error
    /\ jobs[max_workers + 1].state = "Queued"
    /\ max_workers > 1

\* C15: GET /api/jobs/{id}, DELETE /api/jobs/{id} and GET /api/jobs/{id}/output
\* with an identifier no submit has returned answer 404 and change nothing.
UnknownIdNotFound ==
    [][(/\ resp'.path \in {"/api/jobs/:id", "/api/jobs/:id/output"}
        /\ resp'.id \notin JobIds(jobs))
          => /\ resp'.code = 404
             /\ jobs' = jobs
             /\ stop_calls' = stop_calls
             /\ next_id' = next_id
             /\ clock' = clock]_vars

\* A cancel of an identifier that was never issued was answered 404 while
\* the registry holds jobs.
UnknownIdNotFound_Witness ==
    /\ Len(jobs) > 0
    /\ resp = Response("DELETE", "/api/jobs/:id", MaxJobs + 1, 404)

\* C13: getOutput answers an empty list while the job is Queued or Running;
\* once the job is terminal it answers exactly the regular files directly
\* under the job's output directory, none if no directory was configured.
OutputListing ==
    (resp.path = "/api/jobs/:id/output" /\ resp.code = 200)
       => LET job == jobs[JobIndex(resp.id)]
              dir == job.plan.output_dir
          IN IF job.state \in Terminal /\ dir # None /\ fs[dir[1]] # None
             THEN /\ {f.name : f \in resp.files}
                       = {e.name : e \in {x \in fs[dir[1]][1] : x.kind = "file"}}
                  /\ \A f \in resp.files :
                        \E e \in fs[dir[1]][1] :
                           /\ e.kind = "file" /\ e.name = f.name
                           /\ e.size = f.size /\ f.path = <<dir[1], e.name>>
             ELSE resp.files = {}

\* A terminal job's directory holds a file and a subdirectory, and getOutput
\* has answered with the file alone.
OutputListing_Witness ==
    /\ resp.path = "/api/jobs/:id/output"
    /\ resp.code = 200
    /\ jobs[JobIndex(resp.id)].state \in Terminal
    /\ fs["out"] = Some(Entries)
    /\ Cardinality(resp.files) = 1

\* C14: POST /api/jobs answers 201 with the identifier of a new job that is
\* Queued, holds the submitted plan and has neither start nor finish
\* timestamp, and leaves every job that was already registered as it was.
SubmitRegistersQueued ==
    [][resp'.method = "POST" =>
          /\ resp'.code = 201
          /\ Len(jobs') = Len(jobs) + 1
          /\ \A i \in 1..Len(jobs) : jobs'[i] = jobs[i]
          /\ LET job == jobs'[Len(jobs')] IN
                /\ job.id = resp'.id
                /\ job.state = "Queued"
                /\ job.started = None
                /\ job.finished = None
                /\ \A plan \in OutputPlans :
                      Dispatch("POST", "/api/jobs", 0, plan) => job.plan = plan]_vars

\* A second job without output directory was submitted while the first,
\* which has one, is Running.
SubmitRegistersQueued_Witness ==
    /\ Len(jobs) = 2
    /\ resp.method = "POST"
    /\ resp.id = jobs[2].id
    /\ jobs[1].state = "Running"
    /\ jobs[1].plan.output_dir = Some("out")
    /\ jobs[2].plan.output_dir = None

\* C17: the command line built from the arguments is read by a POSIX shell
\* as the script's words followed by exactly one word per argument, each
\* equal to the argument it was built from.
EscapeOneTokenPerArg ==
    full_command # None =>
       ShellTokens(full_command[1]) = ShellTokens(script_cmd) \o esc_args

\* C17, for the arguments shell_escape does protect: if no argument is empty
\* or starts with # or with a tilde, the shell reads one word per argument,
\* equal to it.
EscapeNonEmptyArgs ==
    (/\ full_command # None
     /\ \A i \in 1..Len(esc_args) :
           esc_args[i] # <<>> /\ esc_args[i][1] \notin {"#", "~"})
       => ShellTokens(full_command[1]) = ShellTokens(script_cmd) \o esc_args

\* A command line was built from an argument with a blank and a single quote
\* and from one with a backslash.
EscapeNonEmptyArgs_Witness ==
    /\ full_command # None
    /\ esc_args = << <<" ", "'">>, <<"\\", "a">> >>

\* C16: a second build from the same inputs, given in any order, produces the
\* same script arguments as the first, and the pairs are sorted by key.
CommandOrderDeterministic ==
    (rt_pc = "done" /\ prev_script_args # None) =>
       /\ script_args = prev_script_args[1]
       /\ LET rank(key) == CASE key = <<"dem">> -> 1
                             [] key = <<"in">> -> 2
                             [] key = <<"mode">> -> 3
              keyAt(i) == CHOOSE k \in DOMAIN inputs :
                             <<"--">> \o flag_name(k) = Pairs(script_args)[i].flag
          IN \A i, j \in 1..Len(Pairs(script_args)) :
                i < j => rank(keyAt(i)) < rank(keyAt(j))

\* C18: a raw input without an equals sign makes run_tool fail with an error
\* that names the first such input, and then no output directory has been
\* created, no mount or environment entry added and nothing handed on to run;
\* inputs whose value holds an equals sign are accepted (no run of well-formed
\* inputs ends with that error), the value being all that follows the first
\* equals sign.
InvalidInputFailsEarly ==
    (rt_pc \in {"outdir", "build", "delegate", "done", "failed"}
        /\ FindTool(tool_name) # None) =>
       LET bad == {i \in 1..Len(input_args) : ~WellFormed(input_args[i])} IN
       IF bad # {}
       THEN /\ rt_pc = "failed"
            /\ rt_error = Some([kind |-> "InvalidInput",
                                token |-> input_args[CHOOSE i \in bad :
                                                        \A j \in bad : i <= j]])
            /\ extra_mounts = <<>>
            /\ extra_env = EmptyMap
            /\ delegated = None
            /\ fs["out"] = None
       ELSE /\ rt_error = None \/ rt_error[1].kind # "InvalidInput"
            /\ \A i \in 1..Len(input_args) :
                  LET arg == input_args[i]
                      p == CHOOSE n \in 1..Len(arg) :
                              arg[n] = Eq /\ \A m \in 1..(n - 1) : arg[m] # Eq
                      key == SubSeq(arg, 1, p - 1)
                  IN /\ key \in DOMAIN inputs
                     /\ (\A j \in (i + 1)..Len(input_args) :
                            SubSeq(input_args[j], 1, Len(key) + 1) # key \o <<Eq>>)
                          => inputs[key] = SubSeq(arg, p + 1, Len(arg))

\* A run with an output directory and a directory input failed on its
\* second raw input, which has no equals sign.
InvalidInputFailsEarly_Witness ==
    /\ rt_pc = "failed"
    /\ output_dir = Some(<<"out">>)
    /\ input_args = << KeyValue(<<"in">>, <<"d2">>), <<"mode">> >>
    /\ rt_error = Some(InvalidInput(<<"mode">>))

\* C19: a second build from a rearrangement of the same well-formed inputs
\* yields the same set of (flag, value) pairs as the first, one pair for
\* every distinct key.
PermutationSamePairs ==
    (rt_pc = "done" /\ prev_script_args # None) =>
       LET now == Pairs(script_args)
           before == Pairs(prev_script_args[1])
       IN /\ {now[i] : i \in DOMAIN now} = {before[i] : i \in DOMAIN before}
          /\ Len(now) = Cardinality({KeyOf(input_args[i]) : i \in 1..Len(input_args)})
          /\ Len(before) = Len(now)

\* C19, where the code keeps it: if the keys of the inputs are distinct and
\* no value names a directory, both builds yield the same set of pairs, one
\* pair for every key.
PermutationSamePairsNoDirs ==
    (/\ rt_pc = "done"
     /\ prev_script_args # None
     /\ \A i, j \in 1..Len(input_args) :
           KeyOf(input_args[i]) = KeyOf(input_args[j]) => i = j
     /\ \A i \in 1..Len(input_args) : ~is_dir(ValueOf(input_args[i]))) =>
       LET now == Pairs(script_args)
           before == Pairs(prev_script_args[1])
       IN /\ {now[i] : i \in DOMAIN now} = {before[i] : i \in DOMAIN before}
          /\ Len(now) = Len(input_args)
          /\ Len(before) = Len(now)

\* Two builds from a file input and a value with an equals sign came out in
\* different orders.
PermutationSamePairsNoDirs_Witness ==
    /\ rt_pc = "done"
    /\ prev_script_args # None
    /\ script_args # prev_script_args[1]
    /\ script_args = << <<"--", "input-file">>, <<Slash, "inputs", Slash, "a.tif">>,
                        <<"--", "mode">>, <<"a", Eq, "b">> >>

\* C20: for every key of the raw inputs the script arguments hold exactly one
\* pair with that key's flag, and its value comes from the last raw input
\* with that key: the value itself, or the container path of the mount of
\* that value.
LastValueWins ==
    rt_pc = "done" =>
       \A i \in 1..Len(input_args) :
          LET key == KeyOf(input_args[i])
              same == {j \in 1..Len(input_args) : KeyOf(input_args[j]) = key}
              raw == ValueOf(input_args[CHOOSE j \in same : \A k \in same : k <= j])
              pairs == Pairs(script_args)
              hits == {n \in DOMAIN pairs : pairs[n].flag = <<"--">> \o flag_name(key)}
          IN /\ Cardinality(hits) = 1
             /\ \A n \in hits :
                   IF exists(raw)
                   THEN \E m \in 1..Len(extra_mounts) :
                           /\ extra_mounts[m].container = pairs[n].value
                           /\ extra_mounts[m].host = canonicalize(raw)
                   ELSE pairs[n].value = raw

\* The key in was given twice, first with a directory and last with a file,
\* and the one pair built for it carries the file.
LastValueWins_Witness ==
    /\ rt_pc = "done"
    /\ input_args = << KeyValue(<<"in">>, <<Slash, "data", Slash, "d1">>),
                       KeyValue(<<"in">>, <<Slash, "data", Slash, "a.tif">>) >>
    /\ script_args = << <<"--", "input-file">>, <<Slash, "inputs", Slash, "a.tif">> >>

\* C21: the script arguments hold one pair per parsed key, and the flag of a
\* key is the alias of the tool's input of that name if it has one, the name
\* of that input if it has no alias, and the key itself if the tool defines
\* no input of that name.
FlagFromDefinition ==
    rt_pc = "done" =>
       LET tool == ToolDefs[CHOOSE i \in 1..Len(ToolDefs) : ToolDefs[i].name = tool_name]
           defs == IF tool.inputs = None THEN {}
                   ELSE {tool.inputs[1][i] : i \in 1..Len(tool.inputs[1])}
           pairs == Pairs(script_args)
           flags == {pairs[n].flag : n \in DOMAIN pairs}
       IN /\ Len(pairs) = Cardinality(DOMAIN inputs)
          /\ \A key \in DOMAIN inputs :
                /\ \A d \in defs :
                      d.name = key =>
                         IF d.map_to # None
                         THEN <<"--">> \o d.map_to[1] \in flags
                         ELSE <<"--">> \o d.name \in flags
                /\ (\A d \in defs : d.name # key) => <<"--">> \o key \in flags

\* The tool classify was built with its aliased input and with a key it does
\* not define.
FlagFromDefinition_Witness ==
    /\ rt_pc = "done"
    /\ tool_name = "classify"
    /\ DOMAIN inputs = {<<"in">>, <<"mode">>}
    /\ {Pairs(script_args)[n].flag : n \in DOMAIN Pairs(script_args)}
          = {<<"--", "input-file">>, <<"--", "mode">>}

\* C22: in a built container configuration every input whose value is an
\* existing regular file appears in the command as /inputs/<base name>, and
\* the mounts hold a read-only mount of the file's absolute host path at that
\* container path.
FileInputMounted ==
    container_config # None =>
       \A key \in DOMAIN inputs :
          inputs[key] \in HostFiles =>
             LET value == inputs[key]
                 target == <<Slash, "inputs", Slash, value[Len(value)]>>
                 absolute == IF value[1] = Slash THEN value ELSE Cwd \o value
                 mounts == container_config[1].mounts
             IN /\ PairValue(key) = target
                /\ \E m \in 1..Len(mounts) :
                      /\ mounts[m].host = absolute
                      /\ mounts[m].container = target
                      /\ mounts[m].readonly = TRUE

\* A configuration was built for a file given relative to the working
\* directory.
FileInputMounted_Witness ==
    /\ container_config # None
    /\ <<"dem">> \in DOMAIN inputs
    /\ inputs[<<"dem">>] = <<"a.tif">>
    /\ \E m \in 1..Len(container_config[1].mounts) :
          container_config[1].mounts[m] =
             [host |-> <<Slash, "work", Slash, "a.tif">>,
              container |-> <<Slash, "inputs", Slash, "a.tif">>,
              readonly |-> TRUE]

\* C23: with k inputs whose values are existing directories, their values in
\* the command are the k distinct paths /mnt/input_0 .. /mnt/input_(k-1),
\* each mounted read-only from the directory's absolute host path; a value
\* that is no existing path appears unchanged, and there are no mounts but
\* those of the files, the directories and the output directory.
DirInputsIndexed ==
    rt_pc = "done" =>
       LET dirKeys == {k \in DOMAIN inputs : inputs[k] \in HostDirs}
           fileKeys == {k \in DOMAIN inputs : inputs[k] \in HostFiles}
           n == Cardinality(dirKeys)
       IN /\ {PairValue(k) : k \in dirKeys}
                = {<<Slash, "mnt", Slash, "input_", ToString(i)>> : i \in 0..(n - 1)}
          /\ \A k \in dirKeys :
                \E m \in 1..Len(extra_mounts) :
                   /\ extra_mounts[m].host =
                         (IF inputs[k][1] = Slash THEN inputs[k] ELSE Cwd \o inputs[k])
                   /\ extra_mounts[m].container = PairValue(k)
                   /\ extra_mounts[m].readonly = TRUE
          /\ \A k \in DOMAIN inputs \ (dirKeys \cup fileKeys) : PairValue(k) = inputs[k]
          /\ Len(extra_mounts) = n + Cardinality(fileKeys)
                                   + (IF output_dir = None THEN 0 ELSE 1)

\* Two directories were given, one of them relative, and the mounts are
\* numbered 0 and 1.
DirInputsIndexed_Witness ==
    /\ rt_pc = "done"
    /\ DOMAIN inputs = {<<"in">>, <<"dem">>}
    /\ inputs[<<"in">>] = <<"d2">>
    /\ inputs[<<"dem">>] = <<Slash, "data", Slash, "d1">>
    /\ \E m \in 1..Len(extra_mounts) :
          extra_mounts[m] = [host |-> <<Slash, "work", Slash, "d2">>,
                             container |-> <<Slash, "mnt", Slash, "input_", "1">>,
                             readonly |-> TRUE]

\* C24: a built container configuration has a read-write mount at /output
\* and the environment entry GEOENGINE_OUTPUT_DIR=/output if an output
\* directory was supplied, and neither if none was supplied; a supplied
\* directory exists on the host once step 4 of run_tool is done, up to the
\* end of the container.
OutputDirPlan ==
    /\ container_config # None =>
          LET mounts == container_config[1].mounts
              env == container_config[1].env_vars
              at_output == {m \in 1..Len(mounts) : mounts[m].container = <<Slash, "output">>}
              env_set == /\ "GEOENGINE_OUTPUT_DIR" \in DOMAIN env
                         /\ env["GEOENGINE_OUTPUT_DIR"] = <<Slash, "output">>
          IN IF output_dir # None
             THEN /\ Cardinality(at_output) = 1
                  /\ \A m \in at_output :
                        /\ mounts[m].readonly = FALSE
                        /\ mounts[m].host = Cwd \o output_dir[1]
                  /\ env_set
             ELSE at_output = {} /\ ~env_set
    /\ (/\ output_dir # None
        /\ rt_pc \in {"build", "delegate", "done"}
        /\ rp_pc \notin {"report", "exited"}) => fs[DirKey(output_dir[1])] # None

\* A configuration was built for a run with an output directory and a
\* directory input.
OutputDirPlan_Witness ==
    /\ container_config # None
    /\ output_dir = Some(<<"out">>)
    /\ fs["out"] # None
    /\ Len(container_config[1].mounts) = Len(config_mounts) + 2

\* C25: where the configuration and the request define the same environment
\* key or the same mount container path, the built container configuration
\* holds the request's entry and not the configuration's.
PlanRequestWins ==
    container_config # None =>
       LET mounts == container_config[1].mounts
           env == container_config[1].env_vars
           extras == delegated[1]
       IN /\ \A k \in DOMAIN ConfigEnv \cap DOMAIN extras.extra_env :
                env[k] = extras.extra_env[k]
          /\ \A c \in 1..Len(config_mounts), e \in 1..Len(extras.extra_mounts) :
                config_mounts[c].container = extras.extra_mounts[e].container =>
                   /\ \E m \in 1..Len(mounts) : mounts[m] = extras.extra_mounts[e]
                   /\ \A m \in 1..Len(mounts) : mounts[m] # config_mounts[c]

\* C25, for the environment: every key of the request has the request's
\* value in the built configuration, and every other key of the
\* configuration keeps its value.
PlanEnvRequestWins ==
    container_config # None =>
       LET env == container_config[1].env_vars
           extras == delegated[1].extra_env
       IN /\ DOMAIN env = DOMAIN ConfigEnv \cup DOMAIN extras
          /\ \A k \in DOMAIN extras : env[k] = extras[k]
          /\ \A k \in DOMAIN ConfigEnv \ DOMAIN extras : env[k] = ConfigEnv[k]

\* The configuration and the request both define GEOENGINE_OUTPUT_DIR and
\* the built configuration has the request's value.
PlanEnvRequestWins_Witness ==
    /\ container_config # None
    /\ "GEOENGINE_OUTPUT_DIR" \in DOMAIN delegated[1].extra_env
    /\ ConfigEnv["GEOENGINE_OUTPUT_DIR"] # <<Slash, "output">>
    /\ container_config[1].env_vars["GEOENGINE_OUTPUT_DIR"] = <<Slash, "output">>

\* C26: a tool the project does not define makes run_tool fail before it
\* hands anything on, and a script the project does not define makes
\* run_project_with_options fail before a container configuration is built
\* or a container run.
UnresolvedFailsSynchronously ==
    /\ (rt_pc \notin {"idle", "lookup"}
           /\ \A i \in 1..Len(ToolDefs) : ToolDefs[i].name # tool_name) =>
          /\ rt_pc = "failed"
          /\ rt_error = Some([kind |-> "ToolNotFound", token |-> <<tool_name>>])
          /\ delegated = None
          /\ rp_pc = "idle"
          /\ container_config = None
          /\ exit_code = None
    /\ (rp_pc # "idle" /\ delegated[1].script \notin {"classify"}) =>
          /\ rp_pc = "failed"
          /\ rp_error = Some([kind |-> "ScriptNotFound",
                              token |-> <<delegated[1].script>>])
          /\ container_config = None
          /\ exit_code = None
          /\ result = None

\* The tool convert, whose script the project lacks, was run with an output
\* directory: the directory exists and the run has failed.
UnresolvedFailsSynchronously_Witness ==
    /\ rp_pc = "failed"
    /\ tool_name = "convert"
    /\ rp_error = Some(ScriptNotFound("convert"))
    /\ fs["out"] # None

\* C27: in structured-output mode the printed result has status completed
\* if the container's exit code is 0 and failed otherwise, an error message
\* if and only if the exit code is not 0, and the process exits with the
\* container's exit code.
JsonResult ==
    (rp_pc = "exited" /\ json_output) =>
       /\ result # None
       /\ result[1].exit_code = exit_code[1]
       /\ result[1].status = (IF exit_code[1] = 0 THEN "completed" ELSE "failed")
       /\ (result[1].error # None) <=> (exit_code[1] # 0)
       /\ process_exit = exit_code

\* A container ended with 137 in structured-output mode.
JsonResult_Witness ==
    /\ rp_pc = "exited"
    /\ json_output
    /\ exit_code = Some(137)
    /\ result[1].status = "failed"
    /\ process_exit = Some(137)

\* C29: no two of the mounts that run_tool generates for its inputs have the
\* same container path.
UniqueContainerPaths ==
    rt_pc = "done" =>
       \A i, j \in 1..Len(extra_mounts) :
          (/\ i # j
           /\ extra_mounts[i].container # <<Slash, "output">>
           /\ extra_mounts[j].container # <<Slash, "output">>)
             => extra_mounts[i].container # extra_mounts[j].container

\* C30: over any sequence of register_project and unregister_project calls,
\* registering a name that is registered to a different path fails and leaves
\* the project map as it was; registering it to the same path succeeds and the
\* map stays equal (entry by entry, as paths compare); unregistering a name
\* that is not registered fails and leaves the map as it was; and no call
\* changes the path of a name that stays registered, so a name's path changes
\* only after a successful unregister of that name.
RegistrationIsStable ==
    [][settings_call' # settings_call =>
        LET c == settings_call'[1]
            registered == c.name \in DOMAIN projects
            same == components(projects[c.name]) = components(c.path[1])
        IN  /\ (c.op = "register_project" /\ registered /\ ~same) =>
                    /\ c.result = Some(AlreadyRegistered(c.name, projects[c.name]))
                    /\ projects' = projects
            /\ (c.op = "register_project" /\ registered /\ same) =>
                    /\ c.result = None
                    /\ DOMAIN projects' = DOMAIN projects
                    /\ \A n \in DOMAIN projects :
                          components(projects'[n]) = components(projects[n])
                    /\ c.path[1] = projects[c.name] => projects' = projects
            /\ (c.op = "unregister_project" /\ ~registered) =>
                    /\ c.result = Some(NotRegistered(c.name))
                    /\ projects' = projects
            /\ \A n \in DOMAIN projects \cap DOMAIN projects' :
                  components(projects'[n]) = components(projects[n])]_vars

\* A register_project call was refused while both names are registered.
RegistrationIsStable_Witness ==
    /\ settings_call # None
    /\ settings_call[1].op = "register_project"
    /\ settings_call[1].result # None
    /\ DOMAIN projects = ProjectNames
    /\ components(projects[settings_call[1].name]) # components(settings_call[1].path[1])

====
